---- MODULE Spec2Model ----
(***************************************************************************)
(* Claim settlement server (src/index.js): POST /claim/complete and        *)
(* POST /claim/referral pay a wallet from the treasury and record the      *)
(* payout in the Claim / ReferralClaim collections.                        *)
(*                                                                         *)
(* Every request handler is an async function: it runs atomically between  *)
(* two awaits, and any other request or the ledger may run at an await.    *)
(* One action of the model is one such segment: the awaited call's answer  *)
(* followed by the handler's code up to the next await.                    *)
(*                                                                         *)
(* Strings that the code inspects character by character (wallets, the     *)
(* printed allocation) are sequences of one-character strings.             *)
(***************************************************************************)
EXTENDS Integers, Sequences, FiniteSets, TLC

\* ------------------------------------------------------------------ bounds
NumProcs == 2          \* requests in flight at the same time
MaxRequests == 2       \* requests served in one behaviour
MaxTotal == 2          \* largest allocation / bonus the checker answers
MaxDecimals == 1       \* largest decimals of the mint
InitialTreasury == 20  \* token balance of the treasury account at start

\* --------------------------------------------------------- program constants
CLAIM_FEE_LAMPORTS == 15000000
MantissaBits == 53     \* Number(): an IEEE-754 double

FEE_COLLECTOR == <<"F", "c">>

Procs == 1..NumProcs

\* ------------------------------------------------------------------ strings
Digit == <<"0", "1", "2", "3", "4", "5", "6", "7", "8", "9">>
DigitChars == {Digit[i] : i \in 1..10}

\* The base58 alphabet has no "0", "O", "I", "l"; the model's addresses use
\* these letters of it.
Base58Chars == {"W", "w", "a", "b", "F", "c", "T", "r"}

LowerChar(c) ==
  CASE c = "W" -> "w"
    [] c = "F" -> "f"
    [] c = "T" -> "t"
    [] OTHER -> c

\* String.prototype.toLowerCase
toLowerCase(s) == [i \in DOMAIN s |-> LowerChar(s[i])]

\* BigInt.prototype.toString / the digits of a non-negative integer
RECURSIVE DigitsOf(_)
DigitsOf(n) == IF n < 10 THEN <<Digit[n + 1]>>
               ELSE Append(DigitsOf(n \div 10), Digit[(n % 10) + 1])

DigitValue(c) == CHOOSE d \in 0..9 : Digit[d + 1] = c

\* BigInt(string) of a string of decimal digits
RECURSIVE ParseBigInt(_)
ParseBigInt(s) == IF s = <<>> THEN 0
                  ELSE 10 * ParseBigInt(SubSeq(s, 1, Len(s) - 1)) + DigitValue(s[Len(s)])

\* /^\d+$/.test(s)
IsDigitString(s) == Len(s) >= 1 /\ \A i \in DOMAIN s : s[i] \in DigitChars

\* ------------------------------------------------------------- JSON numbers
\* A value of the checker's JSON: an integer, an integer plus one half, or
\* absent.
Undefined == [t |-> "undefined", n |-> 0]
Num(n) == [t |-> "number", n |-> n]
Half(n) == [t |-> "half", n |-> n]

\* !v
Falsy(v) == v.t = "undefined" \/ (v.t = "number" /\ v.n = 0)

\* v <= 0
NonPositive(v) == v.t # "undefined" /\ (v.n < 0 \/ (v.t = "number" /\ v.n = 0))

\* `${v}`
TemplateString(v) ==
  CASE v.t = "undefined" -> <<"u", "n", "d", "e", "f", "i", "n", "e", "d">>
    [] v.t = "number" -> IF v.n < 0 THEN <<"-">> \o DigitsOf(-v.n) ELSE DigitsOf(v.n)
    [] v.t = "half" -> (IF v.n < 0 THEN <<"-">> \o DigitsOf(-v.n) ELSE DigitsOf(v.n))
                       \o <<".", "5">>

\* ------------------------------------------------------------------ numbers
RECURSIVE Pow(_, _)
Pow(b, e) == IF e = 0 THEN 1 ELSE b * Pow(b, e - 1)

\* mutant: 10 * dec written for 10 ** dec
MultiplierTimes(dec) == 10 * dec

\* BigInt(10) ** BigInt(dec)
Multiplier(dec) == Pow(10, dec)

\* BigInt(finalHuman) * multiplier
AmountSmallest(finalHuman, dec) == ParseBigInt(finalHuman) * Multiplier(dec)

RECURSIVE BitLength(_)
BitLength(n) == IF n = 0 THEN 0 ELSE 1 + BitLength(n \div 2)

\* Number(bigint): the nearest double, ties to even
NumberOf(n) ==
  LET e == BitLength(n) - MantissaBits IN
  IF e <= 0 THEN n
  ELSE LET unit == Pow(2, e)
           q == n \div unit
           r == n % unit
           half == unit \div 2
           up == r > half \/ (r = half /\ q % 2 = 1)
       IN (IF up THEN q + 1 ELSE q) * unit

\* ---------------------------------------------------------------- addresses
\* new PublicKey(s) throws unless s is a base58 string (of a 32-byte key)
IsPublicKey(s) == s # <<>> /\ \A i \in DOMAIN s : s[i] \in Base58Chars

Wa == <<"W", "a">>
wa == <<"w", "a">>
wb == <<"w", "b">>
Missing == <<>>
NotBase58 == <<"w", "0">>

\* the wallet field of a request body
BodyWallets == {Wa, wa, wb, Missing, NotBase58}

\* s.trim(), for the one kind of white space the bodies below carry
RECURSIVE TrimStart(_)
TrimStart(s) == IF s # <<>> /\ Head(s) = " " THEN TrimStart(Tail(s)) ELSE s

RECURSIVE TrimEnd(_)
TrimEnd(s) ==
  IF s # <<>> /\ s[Len(s)] = " " THEN TrimEnd(SubSeq(s, 1, Len(s) - 1)) ELSE s

Trim(s) == TrimEnd(TrimStart(s))

\* the wallet field of a /claim/init-fee body: as above, or padded, or blank
InitFeeBodyWallets == BodyWallets \cup {<<" ", "W", "a", " ">>, <<" ">>}

\* ------------------------------------------------------ ledger: old history
\* Signatures are tuples: <<"fee", i>> for a transaction that was on the
\* ledger before the server started, <<"payout", i>> for the i-th
\* transaction the server submitted.
NoSig == <<>>
FeeSig(i) == <<"fee", i>>
PayoutSig(i) == <<"payout", i>>

SystemTransfer(from, to, lamports) ==
  [program |-> "system", type |-> "transfer", hasInfo |-> TRUE,
   source |-> from, destination |-> to, lamports |-> lamports]

ParsedTx(keys, ixs, failed, status) ==
  [accountKeys |-> keys, instructions |-> ixs, err |-> failed,
   confirmationStatus |-> status]

FeePayment(w) ==
  ParsedTx(<<w, FEE_COLLECTOR>>,
           <<SystemTransfer(w, FEE_COLLECTOR, CLAIM_FEE_LAMPORTS)>>,
           FALSE, "finalized")

\* What the ledger holds under the signatures clients present.
History ==
  [s \in {FeeSig(1), FeeSig(2), FeeSig(3)} |->
     CASE s = FeeSig(1) -> FeePayment(Wa)
       [] s = FeeSig(2) -> FeePayment(wb)
       [] s = FeeSig(3) ->
            ParsedTx(<<Wa, FEE_COLLECTOR>>,
                     <<SystemTransfer(Wa, FEE_COLLECTOR, CLAIM_FEE_LAMPORTS - 1)>>,
                     FALSE, "confirmed")]

\* the feeSig / txSig field of a request body
BodySigs == {FeeSig(1), FeeSig(2), FeeSig(3), FeeSig(0), NoSig}

\* what the checker may answer for finalTotal and referralBonus
JsonValues(max) == {Undefined, Num(-1), Half(1)} \cup {Num(n) : n \in 0..max}

\* -------------------------------------------------------------------- state
VARIABLES
  claims,          \* the Claim collection
  referralClaims,  \* the ReferralClaim collection
  txs,             \* payout transactions the server submitted, in order
  treasury,        \* token balance of the treasury's token account
  ata,             \* wallets that have a token account for the mint
  mintDecimals,    \* decimals of MEME_MINT
  history,         \* parsed transactions of the ledger, by signature
  served,          \* requests received so far
  pc,              \* per request slot: the await the handler is suspended at
  req,             \* per request slot: route and body of the request
  local,           \* per request slot: the handler's local variables
  res              \* per request slot: the response sent

vars == <<claims, referralClaims, txs, treasury, ata, mintDecimals, history,
          served, pc, req, local, res>>

stores == <<claims, referralClaims>>
ledger == <<txs, treasury, ata, mintDecimals, history>>

NoAnswer == [eligible |-> FALSE, finalTotal |-> Undefined, referralBonus |-> Undefined]
NoTx == [to |-> Missing, createAta |-> FALSE, amount |-> 0]

\* calls: the awaited calls of this handler run that have returned, in order.
EmptyLocals ==
  [eg |-> NoAnswer, finalHuman |-> <<>>, dec |-> 0, amountSmallest |-> 0,
   tx |-> NoTx, sig |-> NoSig, calls |-> <<>>]

\* a field of the body that the handlers do not read: an amount the client
\* asserts
NoAmount == <<>>
ClientAmount == <<"9">>

NoReq ==
  [route |-> "none", wallet |-> Missing, sig |-> NoSig, amount |-> NoAmount, rid |-> 0]
\* an unsigned transaction as /claim/init-fee hands it to the client
NoTransaction == [feePayer |-> Missing, instructions |-> <<>>]

NoRes ==
  [status |-> 0, error |-> "", txSig |-> NoSig, amount |-> <<>>, decimals |-> -1,
   transaction |-> NoTransaction]

\* res.status(status).json({ error })
ErrorResponse(status, error) ==
  [status |-> status, error |-> error, txSig |-> NoSig, amount |-> <<>>, decimals |-> -1,
   transaction |-> NoTransaction]

InitWith(decimals, balance, hist, earlier) ==
  /\ claims = {}
  /\ referralClaims = {}
  /\ txs = <<>>
  /\ treasury = balance
  /\ ata = {}
  /\ mintDecimals \in decimals
  /\ history \in hist
  /\ served = earlier
  /\ pc = [p \in Procs |-> "idle"]
  /\ req = [p \in Procs |-> NoReq]
  /\ local = [p \in Procs |-> EmptyLocals]
  /\ res = [p \in Procs |-> NoRes]

Init == InitWith(0..MaxDecimals, InitialTreasury, {History}, 0)

\* The handler of slot p returns: the response is sent, its locals are gone.
Respond(p, response) ==
  /\ pc' = [pc EXCEPT ![p] = "done"]
  /\ res' = [res EXCEPT ![p] = response]
  /\ local' = [local EXCEPT ![p] = EmptyLocals]

\* The handler of slot p suspends at the next await.
Await(p, call, locals) ==
  /\ pc' = [pc EXCEPT ![p] = call]
  /\ local' = [local EXCEPT ![p] =
                 [locals EXCEPT !.calls = IF pc[p] \in {"idle", "done"}
                                            THEN <<>>
                                            ELSE Append(local[p].calls, pc[p])]]
  /\ UNCHANGED res

\* A request arrives on a free slot.
ReceiveBody(p, route, wallet, sig, amount) ==
  /\ pc[p] \in {"idle", "done"}
  /\ served < MaxRequests
  /\ served' = served + 1
  /\ req' = [req EXCEPT ![p] = [route |-> route, wallet |-> wallet, sig |-> sig,
                                amount |-> amount, rid |-> served + 1]]

\* A request whose body has the fields the handler reads and no other.
Receive(p, route, wallet, sig) == ReceiveBody(p, route, wallet, sig, NoAmount)

\* Model.findOne({ wallet })
FindOne(store, key) == {r \in store : r.wallet = key}

\* mutant: the collection has no unique index on wallet
NoUniqueIndex(store, doc) == TRUE

\* the unique index on wallet (Claim.js:4, ReferralClaim.js:15)
UniqueIndexAllows(store, doc) == FindOne(store, doc.wallet) = {}

\* ------------------------------------------------------------------ ledger
\* sendTransaction with skipPreflight: false simulates the transaction on
\* the ledger's current state and throws when the simulation fails.
Executes(tx) ==
  /\ ~(tx.createAta /\ tx.to \in ata)   \* creating an existing account fails
  /\ treasury >= tx.amount              \* the transfer needs the funds

\* connection.sendTransaction(tx, [TREASURY], { skipPreflight: false }):
\* the transaction enters the ledger's queue under a fresh signature.
SendTransaction(p, tx) ==
  /\ Executes(tx)
  /\ txs' = Append(txs, [to |-> tx.to, amount |-> tx.amount,
                         createAta |-> tx.createAta, status |-> "pending",
                         route |-> req[p].route, by |-> req[p].rid])
  /\ UNCHANGED <<treasury, ata, mintDecimals, history>>

\* The ledger executes a submitted transaction: it lands with or without an
\* error, and a transfer that lands without error is delivered.
LedgerExecute ==
  \E i \in DOMAIN txs :
    /\ txs[i].status = "pending"
    /\ IF Executes(txs[i])
       THEN /\ txs' = [txs EXCEPT ![i].status = "finalized"]
            /\ treasury' = treasury - txs[i].amount
            /\ ata' = ata \cup {txs[i].to}
       ELSE /\ txs' = [txs EXCEPT ![i].status = "failed"]
            /\ UNCHANGED <<treasury, ata>>
    /\ UNCHANGED <<mintDecimals, history, stores, served, pc, req, local, res>>

\* ------------------------------------------------------ POST /claim/complete
\* Lines 96-97: the body is read; Claim.findOne is awaited.
CompleteReceiveBody(p, wallets, sigs, amounts) ==
  \E wallet \in wallets, feeSig \in sigs, amount \in amounts :
    /\ ReceiveBody(p, "complete", wallet, feeSig, amount)
    /\ IF wallet = Missing \/ feeSig = NoSig
       THEN Respond(p, ErrorResponse(400, "Missing wallet/feeSig"))
       ELSE Await(p, "findOne", EmptyLocals)
    /\ UNCHANGED <<stores, ledger>>

CompleteReceive(p) == CompleteReceiveBody(p, BodyWallets, BodySigs, {NoAmount})

\* mutant: the lookup uses the wallet as sent, not its lower case
CompleteFindOneCaseSensitive(p) ==
  /\ pc[p] = "findOne" /\ req[p].route = "complete"
  /\ LET exists == FindOne(claims, req[p].wallet) IN
     IF exists # {}
     THEN Respond(p, ErrorResponse(400, "Already claimed"))
     ELSE Await(p, "getParsedTransaction", local[p])
  /\ UNCHANGED <<stores, ledger, served, req>>

\* Lines 100-101: block double claim; getParsedTransaction is awaited.
CompleteFindOne(p) ==
  /\ pc[p] = "findOne" /\ req[p].route = "complete"
  /\ LET exists == FindOne(claims, toLowerCase(req[p].wallet)) IN
     IF exists # {}
     THEN Respond(p, ErrorResponse(400, "Already claimed"))
     ELSE Await(p, "getParsedTransaction", local[p])
  /\ UNCHANGED <<stores, ledger, served, req>>

\* Lines 118-138: the loop over the instructions of the fee transaction.
RECURSIVE ScanInstructions(_, _, _)
ScanInstructions(ixs, wallet, signerMatches) ==
  IF ixs = <<>> THEN FALSE
  ELSE LET ix == Head(ixs) IN
       IF ix.program # "system" THEN ScanInstructions(Tail(ixs), wallet, signerMatches)
       ELSE IF ix.type # "transfer" THEN ScanInstructions(Tail(ixs), wallet, signerMatches)
       ELSE IF ~ix.hasInfo THEN ScanInstructions(Tail(ixs), wallet, signerMatches)
       ELSE IF /\ ix.destination = FEE_COLLECTOR
               /\ ix.source = wallet
               /\ ix.lamports = CLAIM_FEE_LAMPORTS
               /\ signerMatches
            THEN TRUE
            ELSE ScanInstructions(Tail(ixs), wallet, signerMatches)

\* mutant: each condition is looked for in any instruction, not in one
FeePaymentOkAcrossInstructions(parsed, wallet) ==
  LET ixs == {parsed.instructions[i] : i \in DOMAIN parsed.instructions}
      transfers == {ix \in ixs : ix.program = "system" /\ ix.type = "transfer" /\ ix.hasInfo}
  IN /\ parsed.accountKeys # <<>> /\ parsed.accountKeys[1] = wallet
     /\ \E ix \in transfers : ix.destination = FEE_COLLECTOR
     /\ \E ix \in transfers : ix.source = wallet
     /\ \E ix \in transfers : ix.lamports = CLAIM_FEE_LAMPORTS

\* Lines 113-138: ok after the loop.
FeePaymentOk(parsed, wallet) ==
  LET messageAccs == parsed.accountKeys
      signerMatches == messageAccs # <<>> /\ messageAccs[1] = wallet
  IN ScanInstructions(parsed.instructions, wallet, signerMatches)

\* Lines 104-139: verify the fee transfer; getEligibility is awaited.
CompleteVerifyFee(p) ==
  /\ pc[p] = "getParsedTransaction"
  /\ LET feeSig == req[p].sig
         found == feeSig \in DOMAIN history
     IN IF ~found \/ history[feeSig].err
        THEN Respond(p, ErrorResponse(400, "Fee tx not found or failed"))
        ELSE IF ~FeePaymentOk(history[feeSig], req[p].wallet)
        THEN Respond(p, ErrorResponse(400, "Fee payment invalid (amount/to/from mismatch)"))
        ELSE Await(p, "getEligibility", local[p])
  /\ UNCHANGED <<stores, ledger, served, req>>

\* Lines 51-56 and 142-147: the checker answers (or fails); getMint is awaited.
CompleteGetEligibility(p, totals) ==
  /\ pc[p] = "getEligibility" /\ req[p].route = "complete"
  /\ \/ Respond(p, ErrorResponse(500, "Checker 500"))
     \/ \E eligible \in BOOLEAN, finalTotal \in totals :
          LET eg == [eligible |-> eligible, finalTotal |-> finalTotal,
                     referralBonus |-> Undefined]
          IN IF ~eg.eligible \/ Falsy(eg.finalTotal)
             THEN Respond(p, ErrorResponse(403, "Not eligible"))
             ELSE Await(p, "getMint",
                        [local[p] EXCEPT !.eg = eg,
                                         !.finalHuman = TemplateString(eg.finalTotal)])
  /\ UNCHANGED <<stores, ledger, served, req>>

\* The allocation taken from the body when the client sends one.
CompleteGetMintTrustsClient(p) ==
  /\ pc[p] = "getMint" /\ req[p].route = "complete"
  /\ LET dec == mintDecimals
         finalHuman == IF req[p].amount # NoAmount THEN req[p].amount
                       ELSE local[p].finalHuman
     IN IF ~IsDigitString(finalHuman)
        THEN Respond(p, ErrorResponse(400,
               "finalTotal must be integer tokens (no decimal) on UI/server"))
        ELSE Await(p, "getAccount",
                   [local[p] EXCEPT !.dec = dec,
                                    !.amountSmallest = AmountSmallest(finalHuman, dec)])
  /\ UNCHANGED <<stores, ledger, served, req>>

\* Lines 148-157: decimals of the mint, the integer test, the conversion;
\* getAccount is awaited.
CompleteGetMint(p) ==
  /\ pc[p] = "getMint" /\ req[p].route = "complete"
  /\ LET dec == mintDecimals
         finalHuman == local[p].finalHuman
     IN IF ~IsDigitString(finalHuman)
        THEN Respond(p, ErrorResponse(400,
               "finalTotal must be integer tokens (no decimal) on UI/server"))
        ELSE Await(p, "getAccount",
                   [local[p] EXCEPT !.dec = dec,
                                    !.amountSmallest = AmountSmallest(finalHuman, dec)])
  /\ UNCHANGED <<stores, ledger, served, req>>

\* mutant: <= written for <
InsufficientBalanceOrEqual(balance, amountSmallest) == balance <= amountSmallest

\* Line 162: treasAcc.amount < amountSmallest
InsufficientBalance(balance, amountSmallest) == balance < amountSmallest

\* mutant: the balance is checked after the payout was sent
CompleteGetAccountAfterSend(p) ==
  /\ pc[p] = "getAccount" /\ req[p].route = "complete"
  /\ IF InsufficientBalance(treasury, local[p].amountSmallest)
     THEN /\ txs' = Append(txs, [to |-> req[p].wallet, amount |-> local[p].amountSmallest,
                                 createAta |-> FALSE, status |-> "pending",
                                 route |-> req[p].route, by |-> req[p].rid])
          /\ Respond(p, ErrorResponse(400, "Treasury balance insufficient"))
     ELSE /\ Await(p, "getAccountInfo", local[p])
          /\ UNCHANGED txs
  /\ UNCHANGED <<stores, treasury, ata, mintDecimals, history, served, req>>

\* Lines 160-169: the treasury balance guard; getAccountInfo is awaited.
CompleteGetAccount(p) ==
  /\ pc[p] = "getAccount" /\ req[p].route = "complete"
  /\ IF InsufficientBalance(treasury, local[p].amountSmallest)
     THEN Respond(p, ErrorResponse(400, "Treasury balance insufficient"))
     ELSE IF ~IsPublicKey(req[p].wallet)
     THEN Respond(p, ErrorResponse(500, "Invalid public key input"))
     ELSE Await(p, "getAccountInfo", local[p])
  /\ UNCHANGED <<stores, ledger, served, req>>

\* Lines 169-193 (and 271-295): the payout transaction, with the instruction
\* that creates the user's token account when it is missing.
BuildTransaction(wallet, userAtaInfo, amountSmallest) ==
  [to |-> wallet, createAta |-> ~userAtaInfo, amount |-> NumberOf(amountSmallest)]

\* Lines 169-196: the transaction is built; sendTransaction is awaited.
CompleteBuildTx(p) ==
  /\ pc[p] = "getAccountInfo" /\ req[p].route = "complete"
  /\ LET userAtaInfo == req[p].wallet \in ata IN
     Await(p, "sendTransaction",
           [local[p] EXCEPT !.tx = BuildTransaction(req[p].wallet, userAtaInfo,
                                                       local[p].amountSmallest)])
  /\ UNCHANGED <<stores, ledger, served, req>>

\* Lines 196-197: the transaction is sent (or the send throws);
\* confirmTransaction is awaited.
CompleteSend(p) ==
  /\ pc[p] = "sendTransaction" /\ req[p].route = "complete"
  /\ \/ /\ Respond(p, ErrorResponse(500, "failed to send transaction"))
        /\ UNCHANGED ledger
     \/ /\ SendTransaction(p, local[p].tx)
        /\ Await(p, "confirmTransaction", [local[p] EXCEPT !.sig = PayoutSig(Len(txs) + 1)])
  /\ UNCHANGED <<stores, served, req>>

\* connection.confirmTransaction(sig, "finalized") resolves once the
\* transaction has landed, with the transaction's error in its result.
Landed(sig) == \E i \in DOMAIN txs : PayoutSig(i) = sig /\ txs[i].status # "pending"

\* Lines 197-200: the wait for finality ends, or throws on its timeout;
\* Claim.create is awaited.
CompleteConfirm(p) ==
  /\ pc[p] = "confirmTransaction" /\ req[p].route = "complete"
  /\ \/ Respond(p, ErrorResponse(500, "Transaction was not confirmed"))
     \/ /\ Landed(local[p].sig)
        /\ Await(p, "create", local[p])
  /\ UNCHANGED <<stores, ledger, served, req>>

\* mutant: amount holds the human amount, not the base units
ClaimDocumentUnscaled(p) ==
  [wallet |-> toLowerCase(req[p].wallet),
   amount |-> local[p].finalHuman,
   humanAmount |-> local[p].finalHuman,
   decimals |-> local[p].dec,
   txSig |-> local[p].sig,
   feeSig |-> req[p].sig,
   status |-> "confirmed",
   by |-> req[p].rid]

\* Lines 200-209: the document of Claim.create.
ClaimDocument(p) ==
  [wallet |-> toLowerCase(req[p].wallet),
   amount |-> DigitsOf(local[p].amountSmallest),
   humanAmount |-> local[p].finalHuman,
   decimals |-> local[p].dec,
   txSig |-> local[p].sig,
   feeSig |-> req[p].sig,
   status |-> "confirmed",
   by |-> req[p].rid]

\* The record written as soon as the transaction is built, before it is sent.
CompleteCreateBeforeSend(p) ==
  /\ pc[p] \in {"sendTransaction", "create"} /\ req[p].route = "complete"
  /\ \/ /\ ~UniqueIndexAllows(claims, ClaimDocument(p))
        /\ Respond(p, ErrorResponse(500, "E11000 duplicate key error"))
        /\ UNCHANGED claims
     \/ /\ Respond(p, ErrorResponse(500, "store unavailable"))
        /\ UNCHANGED claims
     \/ /\ UniqueIndexAllows(claims, ClaimDocument(p))
        /\ claims' = claims \cup {ClaimDocument(p)}
        /\ Respond(p, [status |-> 200, error |-> "", txSig |-> local[p].sig,
                       amount |-> local[p].finalHuman, decimals |-> local[p].dec,
                       transaction |-> NoTransaction])
  /\ UNCHANGED <<referralClaims, ledger, served, req>>

\* Lines 200-211: the record is inserted (or the insert throws) and the
\* response is sent.
CompleteCreate(p) ==
  /\ pc[p] = "create" /\ req[p].route = "complete"
  /\ \/ /\ ~UniqueIndexAllows(claims, ClaimDocument(p))
        /\ Respond(p, ErrorResponse(500, "E11000 duplicate key error"))
        /\ UNCHANGED claims
     \/ /\ Respond(p, ErrorResponse(500, "store unavailable"))
        /\ UNCHANGED claims
     \/ /\ UniqueIndexAllows(claims, ClaimDocument(p))
        /\ claims' = claims \cup {ClaimDocument(p)}
        /\ Respond(p, [status |-> 200, error |-> "", txSig |-> local[p].sig,
                       amount |-> local[p].finalHuman, decimals |-> local[p].dec,
                       transaction |-> NoTransaction])
  /\ UNCHANGED <<referralClaims, ledger, served, req>>

\* the handler after its first await
CompleteStages(p, totals) ==
  \/ CompleteFindOne(p)
  \/ CompleteVerifyFee(p)
  \/ CompleteGetEligibility(p, totals)
  \/ CompleteGetMint(p)
  \/ CompleteGetAccount(p)
  \/ CompleteBuildTx(p)
  \/ CompleteSend(p)
  \/ CompleteConfirm(p)
  \/ CompleteCreate(p)

Complete(p, totals) ==
  \/ CompleteReceive(p)
  \/ CompleteStages(p, totals)

\* ------------------------------------------------------ POST /claim/init-fee
\* Lines 64-69: the wallet is read from the body and trimmed, parsed as a
\* public key; Claim.findOne is awaited.
InitFeeReceive(p) ==
  \E body \in InitFeeBodyWallets :
    LET wallet == Trim(body) IN
    /\ Receive(p, "init-fee", wallet, NoSig)
    /\ IF wallet = Missing
       THEN Respond(p, ErrorResponse(400, "Missing wallet"))
       ELSE IF ~IsPublicKey(wallet)
       THEN Respond(p, ErrorResponse(500, "Invalid public key input"))
       ELSE Await(p, "findOne", EmptyLocals)
    /\ UNCHANGED <<stores, ledger>>

\* Lines 69-72: a wallet with a claim record is turned away;
\* getLatestBlockhash is awaited.
InitFeeFindOne(p) ==
  /\ pc[p] = "findOne" /\ req[p].route = "init-fee"
  /\ LET already == FindOne(claims, toLowerCase(req[p].wallet)) IN
     IF already # {}
     THEN Respond(p, ErrorResponse(400, "Already claimed"))
     ELSE Await(p, "getLatestBlockhash", local[p])
  /\ UNCHANGED <<stores, ledger, served, req>>

\* Lines 72-87: the unsigned fee transfer, paid by the wallet, is returned.
InitFeeBuildTx(p) ==
  /\ pc[p] = "getLatestBlockhash" /\ req[p].route = "init-fee"
  /\ LET userPk == req[p].wallet
         ix == SystemTransfer(userPk, FEE_COLLECTOR, NumberOf(CLAIM_FEE_LAMPORTS))
     IN Respond(p, [ErrorResponse(200, "") EXCEPT
                      !.transaction = [feePayer |-> userPk, instructions |-> <<ix>>]])
  /\ UNCHANGED <<stores, ledger, served, req>>

ClaimInitFee(p) ==
  \/ InitFeeReceive(p)
  \/ InitFeeFindOne(p)
  \/ InitFeeBuildTx(p)

\* ------------------------------------------------------ POST /claim/referral
\* Lines 224-232: the body is read, the wallet is parsed as a public key;
\* ReferralClaim.findOne is awaited.
ReferralReceiveBody(p, wallets, sigs, amounts) ==
  \E wallet \in wallets, txSig \in sigs, amount \in amounts :
    /\ ReceiveBody(p, "referral", wallet, txSig, amount)
    /\ IF wallet = Missing \/ txSig = NoSig
       THEN Respond(p, ErrorResponse(400, "Missing wallet or txSig"))
       ELSE IF ~IsPublicKey(wallet)
       THEN Respond(p, ErrorResponse(500, "Invalid public key input"))
       ELSE Await(p, "findOne", EmptyLocals)
    /\ UNCHANGED <<stores, ledger>>

ReferralReceive(p) == ReferralReceiveBody(p, BodyWallets, BodySigs, {NoAmount})

\* The existence check of /claim/referral looking into both collections.
ReferralFindOneAnyStore(p) ==
  /\ pc[p] = "findOne" /\ req[p].route = "referral"
  /\ LET normalizedWallet == toLowerCase(req[p].wallet)
         already == FindOne(claims \cup referralClaims, normalizedWallet)
     IN IF already # {}
        THEN Respond(p, ErrorResponse(400, "Referral bonus already claimed"))
        ELSE Await(p, "getSignatureStatus", local[p])
  /\ UNCHANGED <<stores, ledger, served, req>>

\* Lines 232-238: block double claim; getSignatureStatus is awaited.
ReferralFindOne(p) ==
  /\ pc[p] = "findOne" /\ req[p].route = "referral"
  /\ LET normalizedWallet == toLowerCase(req[p].wallet)
         already == FindOne(referralClaims, normalizedWallet)
     IN IF already # {}
        THEN Respond(p, ErrorResponse(400, "Referral bonus already claimed"))
        ELSE Await(p, "getSignatureStatus", local[p])
  /\ UNCHANGED <<stores, ledger, served, req>>

\* Lines 238-244: the proof transaction must be finalized; getEligibility is
\* awaited.
ReferralVerifyProof(p) ==
  /\ pc[p] = "getSignatureStatus"
  /\ LET txSig == req[p].sig
         finalized == /\ txSig \in DOMAIN history
                      /\ history[txSig].confirmationStatus = "finalized"
     IN IF ~finalized
        THEN Respond(p, ErrorResponse(400, "Transaction is not confirmed."))
        ELSE Await(p, "getEligibility", local[p])
  /\ UNCHANGED <<stores, ledger, served, req>>

\* The bonus check written as referralBonus < 0.
ReferralGetEligibilityZeroPasses(p, totals) ==
  /\ pc[p] = "getEligibility" /\ req[p].route = "referral"
  /\ \/ Respond(p, ErrorResponse(500, "Checker 500"))
     \/ \E bonus \in totals :
          LET eg == [eligible |-> FALSE, finalTotal |-> Undefined, referralBonus |-> bonus]
              referralBonus == eg.referralBonus
              finalHuman == TemplateString(referralBonus)
          IN IF referralBonus.t # "undefined" /\ referralBonus.n < 0
             THEN Respond(p, ErrorResponse(400, "No pending referral bonus to claim."))
             ELSE IF ~IsDigitString(finalHuman)
             THEN Respond(p, ErrorResponse(400,
                    "Referral bonus must be integer tokens (no decimal) on server"))
             ELSE Await(p, "getMint",
                        [local[p] EXCEPT !.eg = eg, !.finalHuman = finalHuman])
  /\ UNCHANGED <<stores, ledger, served, req>>

\* Lines 51-56 and 244-257: the checker answers (or fails), the bonus must be
\* a positive integer; getMint is awaited.
ReferralGetEligibility(p, totals) ==
  /\ pc[p] = "getEligibility" /\ req[p].route = "referral"
  /\ \/ Respond(p, ErrorResponse(500, "Checker 500"))
     \/ \E bonus \in totals :
          LET eg == [eligible |-> FALSE, finalTotal |-> Undefined, referralBonus |-> bonus]
              referralBonus == eg.referralBonus
              finalHuman == TemplateString(referralBonus)
          IN IF Falsy(referralBonus) \/ NonPositive(referralBonus)
             THEN Respond(p, ErrorResponse(400, "No pending referral bonus to claim."))
             ELSE IF ~IsDigitString(finalHuman)
             THEN Respond(p, ErrorResponse(400,
                    "Referral bonus must be integer tokens (no decimal) on server"))
             ELSE Await(p, "getMint",
                        [local[p] EXCEPT !.eg = eg, !.finalHuman = finalHuman])
  /\ UNCHANGED <<stores, ledger, served, req>>

\* Lines 257-264: decimals of the mint, the conversion; getAccount is awaited.
ReferralGetMint(p) ==
  /\ pc[p] = "getMint" /\ req[p].route = "referral"
  /\ LET dec == mintDecimals IN
     Await(p, "getAccount",
           [local[p] EXCEPT !.dec = dec,
                            !.amountSmallest = AmountSmallest(local[p].finalHuman, dec)])
  /\ UNCHANGED <<stores, ledger, served, req>>

\* Lines 263-271: the treasury balance guard; getAccountInfo is awaited.
ReferralGetAccount(p) ==
  /\ pc[p] = "getAccount" /\ req[p].route = "referral"
  /\ IF InsufficientBalance(treasury, local[p].amountSmallest)
     THEN Respond(p, ErrorResponse(500, "Treasury balance insufficient for referral bonus"))
     ELSE Await(p, "getAccountInfo", local[p])
  /\ UNCHANGED <<stores, ledger, served, req>>

\* Lines 270-298: the transaction is built; sendTransaction is awaited.
ReferralBuildTx(p) ==
  /\ pc[p] = "getAccountInfo" /\ req[p].route = "referral"
  /\ LET userAtaInfo == req[p].wallet \in ata IN
     Await(p, "sendTransaction",
           [local[p] EXCEPT !.tx = BuildTransaction(req[p].wallet, userAtaInfo,
                                                    local[p].amountSmallest)])
  /\ UNCHANGED <<stores, ledger, served, req>>

\* Lines 298-299: the transaction is sent (or the send throws);
\* confirmTransaction is awaited.
ReferralSend(p) ==
  /\ pc[p] = "sendTransaction" /\ req[p].route = "referral"
  /\ \/ /\ Respond(p, ErrorResponse(500, "failed to send transaction"))
        /\ UNCHANGED ledger
     \/ /\ SendTransaction(p, local[p].tx)
        /\ Await(p, "confirmTransaction", [local[p] EXCEPT !.sig = PayoutSig(Len(txs) + 1)])
  /\ UNCHANGED <<stores, served, req>>

\* Lines 299-302: the wait for finality ends, or throws on its timeout;
\* ReferralClaim.create is awaited.
ReferralConfirm(p) ==
  /\ pc[p] = "confirmTransaction" /\ req[p].route = "referral"
  /\ \/ Respond(p, ErrorResponse(500, "Transaction was not confirmed"))
     \/ /\ Landed(local[p].sig)
        /\ Await(p, "create", local[p])
  /\ UNCHANGED <<stores, ledger, served, req>>

\* Lines 302-307: the document of ReferralClaim.create.
ReferralClaimDocument(p) ==
  [wallet |-> toLowerCase(req[p].wallet),
   amount |-> DigitsOf(local[p].amountSmallest),
   txSig |-> local[p].sig,
   status |-> "confirmed",
   by |-> req[p].rid]

\* The record written with an upsert on the wallet instead of an insert.
ReferralCreateUpsert(p) ==
  /\ pc[p] = "create" /\ req[p].route = "referral"
  /\ \/ /\ Respond(p, ErrorResponse(500, "store unavailable"))
        /\ UNCHANGED referralClaims
     \/ /\ referralClaims' =
             {r \in referralClaims : r.wallet # ReferralClaimDocument(p).wallet}
               \cup {ReferralClaimDocument(p)}
        /\ Respond(p, [status |-> 200, error |-> "", txSig |-> local[p].sig,
                       amount |-> local[p].finalHuman, decimals |-> -1,
                       transaction |-> NoTransaction])
  /\ UNCHANGED <<claims, ledger, served, req>>

\* Lines 302-314: the record is inserted (or the insert throws) and the
\* response is sent.
ReferralCreate(p) ==
  /\ pc[p] = "create" /\ req[p].route = "referral"
  /\ \/ /\ ~UniqueIndexAllows(referralClaims, ReferralClaimDocument(p))
        /\ Respond(p, ErrorResponse(500, "E11000 duplicate key error"))
        /\ UNCHANGED referralClaims
     \/ /\ Respond(p, ErrorResponse(500, "store unavailable"))
        /\ UNCHANGED referralClaims
     \/ /\ UniqueIndexAllows(referralClaims, ReferralClaimDocument(p))
        /\ referralClaims' = referralClaims \cup {ReferralClaimDocument(p)}
        /\ Respond(p, [status |-> 200, error |-> "", txSig |-> local[p].sig,
                       amount |-> local[p].finalHuman, decimals |-> -1,
                       transaction |-> NoTransaction])
  /\ UNCHANGED <<claims, ledger, served, req>>

\* the handler after its first await
ReferralStages(p, totals) ==
  \/ ReferralFindOne(p)
  \/ ReferralVerifyProof(p)
  \/ ReferralGetEligibility(p, totals)
  \/ ReferralGetMint(p)
  \/ ReferralGetAccount(p)
  \/ ReferralBuildTx(p)
  \/ ReferralSend(p)
  \/ ReferralConfirm(p)
  \/ ReferralCreate(p)

Referral(p, totals) ==
  \/ ReferralReceive(p)
  \/ ReferralStages(p, totals)

\* ------------------------------------------------------------ specification
Next ==
  \/ \E p \in Procs : ClaimInitFee(p)
  \/ \E p \in Procs : Complete(p, JsonValues(MaxTotal))
  \/ \E p \in Procs : Referral(p, JsonValues(MaxTotal))
  \/ LedgerExecute

Spec == Init /\ [][Next]_vars

\* One request at a time: a client that waits for each response before it
\* sends the next request.
NextSeq ==
  \/ ClaimInitFee(1)
  \/ Complete(1, JsonValues(MaxTotal))
  \/ Referral(1, JsonValues(MaxTotal))
  \/ LedgerExecute

SpecSeq == Init /\ [][NextSeq]_vars

\* ---------------------------------------------- fee verification, in breadth
\* One /claim/complete request whose feeSig names any transaction of up to
\* MaxInstructions instructions, each the fee transfer or the fee transfer
\* with one thing wrong.
MaxInstructions == 2

FeeInstructions ==
  UNION {
    { SystemTransfer(w, FEE_COLLECTOR, CLAIM_FEE_LAMPORTS),
      SystemTransfer(w, FEE_COLLECTOR, CLAIM_FEE_LAMPORTS - 1),
      SystemTransfer(w, FEE_COLLECTOR, CLAIM_FEE_LAMPORTS + 1),
      SystemTransfer(w, wb, CLAIM_FEE_LAMPORTS),
      [SystemTransfer(w, FEE_COLLECTOR, CLAIM_FEE_LAMPORTS) EXCEPT !.program = "spl-token"],
      [SystemTransfer(w, FEE_COLLECTOR, CLAIM_FEE_LAMPORTS) EXCEPT !.type = "createAccount"],
      [SystemTransfer(w, FEE_COLLECTOR, CLAIM_FEE_LAMPORTS) EXCEPT !.hasInfo = FALSE] }
    : w \in {Wa, wa} }

FeeTransactions ==
  { ParsedTx(keys, ixs, failed, "finalized") :
      keys \in {<<>>, <<Wa, FEE_COLLECTOR>>, <<wa, Wa, FEE_COLLECTOR>>},
      ixs \in UNION {[1..k -> FeeInstructions] : k \in 0..MaxInstructions},
      failed \in BOOLEAN }

InitFee ==
  InitWith({0}, InitialTreasury,
           {[s \in {FeeSig(1)} |-> t] : t \in FeeTransactions}, MaxRequests - 1)

NextFee ==
  \/ Complete(1, JsonValues(MaxTotal))
  \/ LedgerExecute

SpecFee == InitFee /\ [][NextFee]_vars

\* ------------------------------------------------ amount conversion, in breadth
\* One /claim/complete request with allocations up to MaxWideTotal and mint
\* decimals up to MaxWideDecimals, and a treasury that covers them.
MaxWideTotal == 120
MaxWideDecimals == 6
WideTreasury == 1000000000

InitConvert == InitWith(0..MaxWideDecimals, WideTreasury, {History}, MaxRequests - 1)

NextConvert ==
  \/ Complete(1, JsonValues(MaxWideTotal))
  \/ LedgerExecute

SpecConvert == InitConvert /\ [][NextConvert]_vars

\* ------------------------------------------- amounts beyond 2^53, in breadth
\* The integers of the other specifications stay below 2^31.  Here a BigInt
\* is computed in limbs (digits to the base LimbBase, lowest first, zero the
\* empty sequence) and held as the sequence of its bits, lowest first and
\* the highest bit 1: amounts of any size.
LimbBase == Pow(2, 27)

\* a * m + carry, for a multiplier up to ten
RECURSIVE LimbsTimesPlus(_, _, _)
LimbsTimesPlus(a, m, carry) ==
  IF a = <<>> THEN (IF carry = 0 THEN <<>> ELSE <<carry>>)
  ELSE LET v == Head(a) * m + carry
       IN <<v % LimbBase>> \o LimbsTimesPlus(Tail(a), m, v \div LimbBase)

\* BigInt(string) of a string of decimal digits
RECURSIVE LimbsParse(_)
LimbsParse(s) ==
  IF s = <<>> THEN <<>>
  ELSE LimbsTimesPlus(LimbsParse(SubSeq(s, 1, Len(s) - 1)), 10, DigitValue(s[Len(s)]))

\* a * (BigInt(10) ** BigInt(dec))
RECURSIVE LimbsTimesMultiplier(_, _)
LimbsTimesMultiplier(a, dec) ==
  IF dec = 0 THEN a ELSE LimbsTimesMultiplier(LimbsTimesPlus(a, 10, 0), dec - 1)

\* the bits of a number in limbs
BitsOf(a) ==
  IF a = <<>> THEN <<>>
  ELSE LET width == BitLength(LimbBase) - 1
           len == width * (Len(a) - 1) + BitLength(a[Len(a)])
       IN [i \in 1..len |->
             (a[((i - 1) \div width) + 1] \div Pow(2, (i - 1) % width)) % 2]

\* BigInt(finalHuman) * multiplier
BigAmountSmallest(finalHuman, dec) ==
  BitsOf(LimbsTimesMultiplier(LimbsParse(finalHuman), dec))

\* a < b
BigLess(a, b) ==
  IF Len(a) # Len(b) THEN Len(a) < Len(b)
  ELSE \E i \in 1..Len(a) :
         /\ a[i] < b[i]
         /\ \A j \in (i + 1)..Len(a) : a[j] = b[j]

\* a + 1
BigIncrement(a) ==
  IF \A i \in 1..Len(a) : a[i] = 1
  THEN [i \in 1..(Len(a) + 1) |-> IF i = Len(a) + 1 THEN 1 ELSE 0]
  ELSE LET z == CHOOSE k \in 1..Len(a) : a[k] = 0 /\ \A j \in 1..(k - 1) : a[j] = 1
       IN [i \in 1..Len(a) |-> IF i < z THEN 0 ELSE IF i = z THEN 1 ELSE a[i]]

\* Number(bigint), as the integer the double stands for: the highest
\* MantissaBits bits are kept, the rest is rounded to nearest, ties to even
BigNumberOf(a) ==
  LET e == Len(a) - MantissaBits IN
  IF e <= 0 THEN a
  ELSE LET q == SubSeq(a, e + 1, Len(a))
           up == /\ a[e] = 1
                 /\ \/ \E i \in 1..(e - 1) : a[i] = 1
                    \/ a[e + 1] = 1
       IN [i \in 1..e |-> 0] \o (IF up THEN BigIncrement(q) ELSE q)

\* the largest amount of a token account: 2^64 - 1
U64Max == [i \in 1..64 |-> 1]

\* Allocations of sixteen digits, all below 2^53 and so numbers the
\* checker's JSON can carry exactly, and mint decimals up to MaxBigDecimals.
MaxBigDecimals == 2

BigHumans ==
  { <<"1", "8", "0", "1", "4", "3", "9", "8", "5", "0", "9", "4", "8", "1">>
      \o <<Digit[a + 1], Digit[b + 1]>> : a, b \in 0..9 }

\* One /claim/complete request that has passed the fee verification and to
\* which the checker has answered one of these allocations, with a treasury
\* that covers every amount.  Amounts and balance are BigInts as above.
InitBig ==
  /\ claims = {}
  /\ referralClaims = {}
  /\ txs = <<>>
  /\ treasury = U64Max
  /\ ata = {}
  /\ mintDecimals \in 0..MaxBigDecimals
  /\ history = History
  /\ served = MaxRequests
  /\ pc = [p \in Procs |-> IF p = 1 THEN "getMint" ELSE "idle"]
  /\ req = [p \in Procs |->
              IF p = 1 THEN [route |-> "complete", wallet |-> Wa, sig |-> FeeSig(1),
                             amount |-> NoAmount, rid |-> MaxRequests]
              ELSE NoReq]
  /\ \E finalHuman \in BigHumans :
       local = [p \in Procs |->
                  IF p = 1
                  THEN [EmptyLocals EXCEPT
                          !.eg = [eligible |-> TRUE,
                                  finalTotal |-> [t |-> "number", digits |-> finalHuman],
                                  referralBonus |-> Undefined],
                          !.finalHuman = finalHuman,
                          !.amountSmallest = <<>>,
                          !.calls = <<"findOne", "getParsedTransaction", "getEligibility">>]
                  ELSE EmptyLocals]
  /\ res = [p \in Procs |-> NoRes]

\* Lines 148-157, as CompleteGetMint.
BigGetMint(p) ==
  /\ pc[p] = "getMint" /\ req[p].route = "complete"
  /\ LET dec == mintDecimals
         finalHuman == local[p].finalHuman
     IN IF ~IsDigitString(finalHuman)
        THEN Respond(p, ErrorResponse(400,
               "finalTotal must be integer tokens (no decimal) on UI/server"))
        ELSE Await(p, "getAccount",
                   [local[p] EXCEPT !.dec = dec,
                                    !.amountSmallest = BigAmountSmallest(finalHuman, dec)])
  /\ UNCHANGED <<stores, ledger, served, req>>

\* Lines 160-169, as CompleteGetAccount.
BigGetAccount(p) ==
  /\ pc[p] = "getAccount" /\ req[p].route = "complete"
  /\ IF BigLess(treasury, local[p].amountSmallest)
     THEN Respond(p, ErrorResponse(400, "Treasury balance insufficient"))
     ELSE IF ~IsPublicKey(req[p].wallet)
     THEN Respond(p, ErrorResponse(500, "Invalid public key input"))
     ELSE Await(p, "getAccountInfo", local[p])
  /\ UNCHANGED <<stores, ledger, served, req>>

\* Lines 169-193, as CompleteBuildTx: the amount of the transfer instruction
\* is Number(amountSmallest).
BigBuildTx(p) ==
  /\ pc[p] = "getAccountInfo" /\ req[p].route = "complete"
  /\ LET userAtaInfo == req[p].wallet \in ata IN
     Await(p, "sendTransaction",
           [local[p] EXCEPT !.tx = [to |-> req[p].wallet, createAta |-> ~userAtaInfo,
                                    amount |-> BigNumberOf(local[p].amountSmallest)]])
  /\ UNCHANGED <<stores, ledger, served, req>>

NextBig ==
  \/ BigGetMint(1)
  \/ BigGetAccount(1)
  \/ BigBuildTx(1)

SpecBig == InitBig /\ [][NextBig]_vars

\* ------------------------------------------- bodies with more than is read
\* Requests for one wallet on both settlement routes, with either of the two
\* finalized signatures of the history and with or without an amount
\* asserted by the client.
TrustSigs == {FeeSig(1), FeeSig(2)}

NextTrust ==
  \/ \E p \in Procs : CompleteReceiveBody(p, {Wa}, TrustSigs, {NoAmount, ClientAmount})
  \/ \E p \in Procs : CompleteStages(p, JsonValues(MaxTotal))
  \/ \E p \in Procs : ReferralReceiveBody(p, {Wa}, TrustSigs, {NoAmount, ClientAmount})
  \/ \E p \in Procs : ReferralStages(p, JsonValues(MaxTotal))
  \/ LedgerExecute

SpecTrust == Init /\ [][NextTrust]_vars

\* ------------------------------------------------------------------- claims
Routes == {"complete", "referral"}

Store(route) == IF route = "referral" THEN referralClaims ELSE claims
StoreAfter(route) == IF route = "referral" THEN referralClaims' ELSE claims'

\* the wallet has a settled record in the route's collection
Settled(route, wallet) == \E r \in Store(route) : r.wallet = toLowerCase(wallet)

\* the handler of slot p is between its first await and its response
Active(p) == pc[p] \notin {"idle", "done"}

\* slot p sends a response in this step
Responds(p) == pc'[p] = "done" /\ (pc[p] # "done" \/ req'[p].rid # req[p].rid)

\* the payouts submitted / the records written by the request with this id
PayoutsOf(rid, ts) == {i \in DOMAIN ts : ts[i].by = rid}
RecordsOf(rid, cs, rs) == {r \in cs \cup rs : r.by = rid}

AlreadyClaimed(route) ==
  IF route = "referral" THEN ErrorResponse(400, "Referral bonus already claimed")
  ELSE ErrorResponse(400, "Already claimed")

\* C1: two attempts for the same wallet and channel that are in progress at
\* the same time never both have a payout transaction submitted.
C1_ConcurrentAttemptsOneDisbursement ==
  \A p, q \in Procs :
    (/\ p # q
     /\ Active(p) /\ Active(q)
     /\ req[p].route = req[q].route
     /\ req[p].wallet = req[q].wallet)
    => ~(local[p].sig # NoSig /\ local[q].sig # NoSig)

\* C2: an attempt whose existence check finds the wallet settled in its
\* channel ends there as already claimed, and no transaction on the ledger
\* was submitted by it.
C2_RepeatAttemptRejected ==
  [][\A p \in Procs :
       (/\ pc[p] = "findOne"
        /\ pc'[p] # "findOne"
        /\ Settled(req[p].route, req[p].wallet))
       => /\ pc'[p] = "done"
          /\ res'[p] = AlreadyClaimed(req[p].route)
          /\ txs' = txs
          /\ PayoutsOf(req[p].rid, txs') = {}]_vars

C2_Witness ==
  \E p \in Procs :
    /\ pc[p] = "done"
    /\ res[p] = AlreadyClaimed(req[p].route)
    /\ Settled(req[p].route, req[p].wallet)

\* C3: at most one payout per wallet and channel is ever delivered on the
\* ledger, whatever the attempts' waits for finality and record writes did.
C3_AtMostOnePayoutDelivered ==
  \A route \in Routes, w \in BodyWallets :
    Cardinality({i \in DOMAIN txs : /\ txs[i].route = route
                                    /\ txs[i].to = w
                                    /\ txs[i].status = "finalized"}) <= 1

InsufficientTreasury ==
  {"Treasury balance insufficient", "Treasury balance insufficient for referral bonus"}

\* C4: at the balance guard, a balance strictly below the payout ends the
\* attempt as insufficient with no transaction submitted and no record
\* written by it; a balance equal to or above the payout lets it go on to
\* build the transaction.
C4_BalanceGuard ==
  [][\A p \in Procs :
       (pc[p] = "getAccount" /\ pc'[p] # "getAccount")
       => IF treasury < local[p].amountSmallest
          THEN /\ pc'[p] = "done"
               /\ res'[p].error \in InsufficientTreasury
               /\ txs' = txs /\ claims' = claims /\ referralClaims' = referralClaims
               /\ PayoutsOf(req[p].rid, txs') = {}
               /\ RecordsOf(req[p].rid, claims', referralClaims') = {}
          ELSE /\ pc'[p] = "getAccountInfo"
               /\ res'[p].error \notin InsufficientTreasury]_vars

C4_Witness ==
  \E p \in Procs :
    /\ pc[p] = "done"
    /\ res[p].error \in InsufficientTreasury
    /\ treasury > 0

\* C5: every record with status confirmed refers to a payout transaction
\* that reached finality without error on the ledger.
C5_ConfirmedMeansFinalized ==
  \A r \in claims \cup referralClaims :
    r.status = "confirmed"
    => \E i \in DOMAIN txs : PayoutSig(i) = r.txSig /\ txs[i].status = "finalized"

\* the transaction has one instruction that is a system transfer of exactly
\* the fee from the wallet to the fee collector, and its first account key
\* is the wallet
IsFeePaymentOf(parsed, wallet) ==
  /\ parsed.accountKeys # <<>>
  /\ parsed.accountKeys[1] = wallet
  /\ \E i \in DOMAIN parsed.instructions :
       LET ix == parsed.instructions[i] IN
       /\ ix.program = "system" /\ ix.type = "transfer" /\ ix.hasInfo
       /\ ix.source = wallet
       /\ ix.destination = FEE_COLLECTOR
       /\ ix.lamports = CLAIM_FEE_LAMPORTS

FeePaymentInvalid == ErrorResponse(400, "Fee payment invalid (amount/to/from mismatch)")

\* C6: a fee transaction that is found and did not fail passes the
\* verification exactly when it is a fee payment of the wallet; otherwise the
\* attempt ends there as fee payment invalid.
C6_FeeVerification ==
  [][\A p \in Procs :
       (/\ pc[p] = "getParsedTransaction"
        /\ pc'[p] # "getParsedTransaction"
        /\ req[p].sig \in DOMAIN history
        /\ ~history[req[p].sig].err)
       => IF IsFeePaymentOf(history[req[p].sig], req[p].wallet)
          THEN pc'[p] = "getEligibility"
          ELSE pc'[p] = "done" /\ res'[p] = FeePaymentInvalid]_vars

\* the conditions are met, but only by different instructions
C6_Witness ==
  \E p \in Procs :
    /\ pc[p] = "done"
    /\ res[p] = FeePaymentInvalid
    /\ LET parsed == history[FeeSig(1)] IN
       /\ req[p].sig = FeeSig(1)
       /\ parsed.accountKeys # <<>> /\ parsed.accountKeys[1] = req[p].wallet
       /\ \E i, j, k \in DOMAIN parsed.instructions :
            /\ parsed.instructions[i].source = req[p].wallet
            /\ parsed.instructions[j].destination = FEE_COLLECTOR
            /\ parsed.instructions[k].lamports = CLAIM_FEE_LAMPORTS
            /\ parsed.instructions[i].program = "system"
            /\ parsed.instructions[j].program = "system"
            /\ parsed.instructions[k].program = "system"

Zeros(n) == [i \in 1..n |-> "0"]

\* C7: every Claim record has amount = humanAmount x 10^decimals as
\* integers, its amount is the digits of humanAmount followed by decimals
\* zeros, and its decimals are the mint's.
C7_AmountIsScaledHumanAmount ==
  \A r \in claims :
    /\ IsDigitString(r.humanAmount) /\ IsDigitString(r.amount)
    /\ r.decimals = mintDecimals
    /\ ParseBigInt(r.amount) = ParseBigInt(r.humanAmount) * Pow(10, r.decimals)
    /\ r.amount = r.humanAmount \o Zeros(r.decimals)

C7_Witness ==
  \E r \in claims : Len(r.humanAmount) >= 3 /\ r.decimals >= 3

OnePerWallet(store) == \A r1, r2 \in store : r1.wallet = r2.wallet => r1 = r2

\* C8: each collection holds at most one record per wallet key after every
\* step, and an insert for a key that has a record throws and leaves the
\* collection as it was.
C8_OneRecordPerWallet ==
  [][/\ OnePerWallet(claims') /\ OnePerWallet(referralClaims')
     /\ \A p \in Procs :
          (/\ pc[p] = "create"
           /\ pc'[p] # "create"
           /\ Settled(req[p].route, req[p].wallet))
          => /\ StoreAfter(req[p].route) = Store(req[p].route)
             /\ res'[p].status = 500]_vars

C8_Witness ==
  \E p \in Procs :
    /\ pc[p] = "done"
    /\ res[p].error = "E11000 duplicate key error"
    /\ Settled(req[p].route, req[p].wallet)

GuardFailures ==
  {"Missing wallet/feeSig", "Missing wallet or txSig",
   "Fee tx not found or failed", "Fee payment invalid (amount/to/from mismatch)",
   "Transaction is not confirmed.",
   "Not eligible", "No pending referral bonus to claim.",
   "finalTotal must be integer tokens (no decimal) on UI/server",
   "Referral bonus must be integer tokens (no decimal) on server"}
  \cup InsufficientTreasury

\* C9: a response that reports a verification, eligibility, allocation or
\* balance-guard failure comes from a request that submitted no transaction
\* and wrote no record, in a step that leaves both collections and the
\* ledger's payouts as they were.
C9_FailureLeavesNoTrace ==
  [][\A p \in Procs :
       (Responds(p) /\ res'[p].error \in GuardFailures)
       => /\ claims' = claims /\ referralClaims' = referralClaims
          /\ txs' = txs
          /\ PayoutsOf(req'[p].rid, txs') = {}
          /\ RecordsOf(req'[p].rid, claims', referralClaims') = {}]_vars

C9_Witness ==
  \E p \in Procs :
    /\ pc[p] = "done"
    /\ res[p].error = "Treasury balance insufficient"
    /\ ~Settled(req[p].route, req[p].wallet)

\* C10: a /claim/complete request answered ok carries the checker's
\* finalTotal H as a string and the mint's decimals D, and after it the
\* Claim collection holds exactly one record for the wallet, with amount
\* H x 10^D, humanAmount H, decimals D and status confirmed.
C10_SuccessfulClaim ==
  [][\A p \in Procs :
       (req[p].route = "complete" /\ Responds(p) /\ res'[p].status = 200)
       => LET H == local[p].eg.finalTotal.n
              D == mintDecimals
              mine == {r \in claims' : r.wallet = toLowerCase(req[p].wallet)}
          IN /\ local[p].eg.finalTotal.t = "number" /\ local[p].eg.eligible
             /\ res'[p].amount = DigitsOf(H)
             /\ res'[p].decimals = D
             /\ Cardinality(mine) = 1
             /\ \A r \in mine : /\ r.amount = DigitsOf(H * Pow(10, D))
                                /\ r.humanAmount = DigitsOf(H)
                                /\ r.decimals = D
                                /\ r.status = "confirmed"]_vars

C10_Witness ==
  \E p \in Procs :
    /\ req[p].route = "complete" /\ pc[p] = "done" /\ res[p].status = 200
    /\ res[p].decimals = 1 /\ res[p].amount = <<"2">>
    /\ \E r \in claims : r.by = req[p].rid /\ r.amount = <<"2", "0">>

\* the status the interface assigns to each failure of /claim/complete
CompleteFailureStatus(error) ==
  CASE error \in {"Missing wallet/feeSig", "Already claimed",
                  "Fee tx not found or failed",
                  "Fee payment invalid (amount/to/from mismatch)",
                  "finalTotal must be integer tokens (no decimal) on UI/server"} -> 400
    [] error = "Not eligible" -> 403
    [] OTHER -> 500

\* C11: every failure response of /claim/complete carries the status of its
\* class: 400 for missing fields, already claimed, a fee transaction not
\* found, failed or mismatched and a non-integer allocation; 403 for an
\* ineligible wallet; 500 for an insufficient treasury balance and for
\* unexpected errors.
C11_CompleteFailureStatuses ==
  \A p \in Procs :
    (pc[p] = "done" /\ req[p].route = "complete" /\ res[p].status # 200)
    => res[p].status = CompleteFailureStatus(res[p].error)

\* the awaited calls that go to the ledger (connection.* and the spl-token
\* reads made through it)
LedgerCalls ==
  {"getLatestBlockhash", "getParsedTransaction", "getSignatureStatus", "getMint",
   "getAccount", "getAccountInfo", "sendTransaction", "confirmTransaction"}

\* the ledger calls slot p has made in the handler run that takes this step
LedgerCallsOf(p) ==
  ({local[p].calls[i] : i \in DOMAIN local[p].calls} \cup {pc[p]}) \cap LedgerCalls

NoPendingBonus == "No pending referral bonus to claim."

\* C12 as stated: a /claim/referral attempt that ends for want of a positive
\* bonus returns 400 with "No pending referral bonus to claim.", has made no
\* ledger call at all (no read, no submission) and has written no record.
C12_NoBonusNoLedgerInteraction ==
  [][\A p \in Procs :
       (Responds(p) /\ res'[p].error = NoPendingBonus)
       => /\ res'[p].status = 400
          /\ LedgerCallsOf(p) = {}
          /\ PayoutsOf(req[p].rid, txs') = {}
          /\ RecordsOf(req[p].rid, claims', referralClaims') = {}]_vars

\* C12, amended: a /claim/referral attempt goes on from the checker's answer
\* only with a positive bonus; one that ends for want of it returns 400 with
\* "No pending referral bonus to claim.", its only ledger call was the status
\* read of the proof signature made before the checker was asked, it
\* submitted nothing, wrote no record and left stores and ledger as they were.
C12_NoBonusOnlyProofRead ==
  [][\A p \in Procs :
       /\ (Responds(p) /\ res'[p].error = NoPendingBonus)
          => /\ res'[p].status = 400
             /\ req[p].route = "referral"
             /\ LedgerCallsOf(p) = {"getSignatureStatus"}
             /\ PayoutsOf(req[p].rid, txs') = {}
             /\ RecordsOf(req[p].rid, claims', referralClaims') = {}
             /\ UNCHANGED <<stores, ledger>>
       /\ (req[p].route = "referral" /\ pc[p] = "getEligibility" /\ pc'[p] = "getMint")
          => /\ local'[p].eg.referralBonus.t = "number"
             /\ local'[p].eg.referralBonus.n > 0]_vars

C12_Witness ==
  \E p \in Procs :
    /\ pc[p] = "done" /\ req[p].route = "referral"
    /\ res[p] = ErrorResponse(400, NoPendingBonus)
    /\ PayoutsOf(req[p].rid, txs) = {}

\* C13: a record that exists in a store exists after every step with all its
\* fields unchanged: no step of /claim/init-fee, /claim/complete or
\* /claim/referral updates or deletes a record.
C13_RecordsArePermanent ==
  [][claims \subseteq claims' /\ referralClaims \subseteq referralClaims']_vars

\* a record exists, and requests of each route have been served after it was
\* written, one of them an init-fee request for the wallet of the record
C13_Witness ==
  \E r \in claims, p \in Procs :
    /\ req[p].route = "init-fee" /\ pc[p] = "done"
    /\ req[p].rid > r.by
    /\ toLowerCase(req[p].wallet) = r.wallet
    /\ res[p] = AlreadyClaimed("init-fee")

\* slot p takes this step
Steps(p) == pc'[p] # pc[p] \/ req'[p] # req[p]

\* C14: the channels are independent: a step of a /claim/complete attempt
\* leaves the ReferralClaim store as it was, a step of a /claim/referral
\* attempt leaves the Claim store as it was, and an attempt is rejected as
\* already claimed only when its own channel's store holds a record for the
\* wallet, whatever the other store holds.
C14_ChannelsIndependent ==
  [][\A p \in Procs :
       Steps(p) =>
         /\ req'[p].route = "complete" => referralClaims' = referralClaims
         /\ req'[p].route = "referral" => claims' = claims
         /\ (/\ req'[p].route \in Routes
             /\ Responds(p)
             /\ res'[p] = AlreadyClaimed(req'[p].route))
            => Settled(req'[p].route, req'[p].wallet)]_vars

\* a referral attempt for a wallet that already had its record in the Claim
\* store was served to the end and its record was written
C14_Witness ==
  \E p \in Procs, r \in claims :
    /\ req[p].route = "referral" /\ pc[p] = "done" /\ res[p].status = 200
    /\ r.wallet = toLowerCase(req[p].wallet)
    /\ r.by < req[p].rid
    /\ RecordsOf(req[p].rid, {}, referralClaims) # {}

\* C15: an attempt that has built its payout transaction (it is about to
\* submit it, waits for it, or is about to write the final record) has a
\* record of its own for the wallet in its channel's store: the reservation
\* inserted before the transaction was built.
C15_ReservedBeforePayout ==
  \A p \in Procs :
    (/\ req[p].route \in Routes
     /\ pc[p] \in {"sendTransaction", "confirmTransaction", "create"})
    => \E r \in Store(req[p].route) :
         /\ r.wallet = toLowerCase(req[p].wallet)
         /\ r.by = req[p].rid
         /\ r.status \in {"pending", "confirmed"}

\* C16: the payouts submitted for different wallets and not yet executed are
\* together covered by the treasury balance: none was submitted against a
\* balance that an earlier submitted payout had already spoken for.
C16_SubmittedPayoutsCovered ==
  \A i, j \in DOMAIN txs :
    (/\ i < j
     /\ txs[i].status = "pending" /\ txs[j].status = "pending"
     /\ txs[i].to # txs[j].to)
    => txs[i].amount + txs[j].amount <= treasury

\* the awaited calls of a settlement handler, in the order of its code:
\* existence check, fee or proof verification, eligibility, conversion,
\* balance guard, building and submission, finality wait, record write
StageOrder(route) ==
  <<"findOne",
    IF route = "referral" THEN "getSignatureStatus" ELSE "getParsedTransaction",
    "getEligibility", "getMint", "getAccount", "getAccountInfo",
    "sendTransaction", "confirmTransaction", "create">>

\* the first n stages
Stages(route, n) == SubSeq(StageOrder(route), 1, n)

\* C17: a settlement attempt goes through its stages in order: after every
\* step the calls that have returned, followed by the one awaited, are a
\* prefix of the stage order; a payout enters the ledger only in the
\* submission step of an attempt whose six earlier calls have all returned;
\* a record enters a store only in the record-write step of an attempt whose
\* payout was submitted and whose finality wait has ended, and that step
\* answers 200; an attempt in progress has no record of its own in a store.
C17_StagesInOrder ==
  [][/\ \A p \in Procs :
          (req'[p].route \in Routes /\ pc'[p] \notin {"idle", "done"})
          => /\ Append(local'[p].calls, pc'[p])
                  = Stages(req'[p].route, Len(local'[p].calls) + 1)
             /\ RecordsOf(req'[p].rid, claims', referralClaims') = {}
     /\ Len(txs') > Len(txs)
        => \E p \in Procs :
             /\ Steps(p) /\ pc[p] = "sendTransaction"
             /\ txs'[Len(txs')].by = req[p].rid
             /\ local[p].calls = Stages(req[p].route, 6)
     /\ \A r \in (claims' \cup referralClaims') \ (claims \cup referralClaims) :
          \E p \in Procs :
            /\ Steps(p) /\ pc[p] = "create"
            /\ r.by = req[p].rid
            /\ local[p].calls = Stages(req[p].route, 8)
            /\ \E i \in PayoutsOf(r.by, txs) : r.txSig = PayoutSig(i)
            /\ Responds(p) /\ res'[p].status = 200]_vars

\* attempts of both routes have come to their record write, every earlier
\* stage behind them
C17_Witness ==
  \E p, q \in Procs :
    /\ req[p].route = "complete" /\ req[q].route = "referral"
    /\ pc[p] = "create" /\ pc[q] = "create"
    /\ local[p].calls = Stages("complete", 8)
    /\ local[q].calls = Stages("referral", 8)

\* C18: the amount in the transfer instruction of a payout transaction is
\* the computed base-unit amount, bit for bit, whatever its size.
C18_InstructionAmountExact ==
  \A p \in Procs :
    pc[p] = "sendTransaction" => local[p].tx.amount = local[p].amountSmallest

\* the stages at which the amount has been computed / the transaction built
Converted == {"getAccount", "getAccountInfo", "sendTransaction", "confirmTransaction", "create"}
Built == {"sendTransaction", "confirmTransaction", "create"}

\* the checker's answer for the entitlement of the route
OracleAnswer(p) ==
  IF req[p].route = "referral" THEN local[p].eg.referralBonus ELSE local[p].eg.finalTotal

\* C19: the payout amount depends on the checker's answer and the mint's
\* decimals only: two attempts on the same route for the same wallet that
\* got the same answer hold the same base-unit amount and build the same
\* transfer amount, whatever signature and whatever client amount their
\* bodies carry; the payout that enters the ledger carries that amount and
\* the record that is written stores it.
C19_AmountFromOracleOnly ==
  [][/\ \A p, q \in Procs :
          (/\ req[p].route \in Routes /\ req[p].route = req[q].route
           /\ req[p].wallet = req[q].wallet
           /\ pc[p] \in Converted /\ pc[q] \in Converted
           /\ OracleAnswer(p) = OracleAnswer(q))
          => /\ local[p].amountSmallest = local[q].amountSmallest
             /\ (pc[p] \in Built /\ pc[q] \in Built)
                => local[p].tx.amount = local[q].tx.amount
     /\ \A p \in Procs :
          /\ (Steps(p) /\ Len(txs') > Len(txs))
             => txs'[Len(txs')].amount = local[p].amountSmallest
          /\ \A r \in (claims' \cup referralClaims') \ (claims \cup referralClaims) :
               Steps(p) => r.amount = DigitsOf(local[p].amountSmallest)]_vars

\* two attempts for the same wallet with the same answer, different
\* signatures and different client amounts, both with their payout submitted
C19_Witness ==
  \E p, q \in Procs :
    /\ req[p].route = "referral" /\ req[q].route = "referral"
    /\ req[p].wallet = req[q].wallet
    /\ req[p].sig # req[q].sig
    /\ req[p].amount = NoAmount /\ req[q].amount = ClientAmount
    /\ pc[p] = "create" /\ pc[q] = "create"
    /\ OracleAnswer(p) = OracleAnswer(q)
    /\ local[p].tx.amount = local[q].tx.amount

\* the record r was written by an attempt for this very address
WrittenFor(r, wallet) == \E i \in DOMAIN txs : txs[i].by = r.by /\ txs[i].to = wallet

\* C20: the double-claim guard tells wallets apart: an attempt is rejected
\* as already claimed, or its record write is refused as a duplicate, only
\* when the store of its channel holds a record written for the same
\* address, letter case included.
C20_GuardIsolatesWallets ==
  \A p \in Procs :
    (/\ pc[p] = "done" /\ req[p].route \in Routes
     /\ \/ res[p] = AlreadyClaimed(req[p].route)
        \/ res[p] = ErrorResponse(500, "E11000 duplicate key error"))
    => \E r \in Store(req[p].route) : WrittenFor(r, req[p].wallet)

====
